---- MODULE Spec2Model ----
(***************************************************************************)
(* Model of rtmaster/iothub, src/eventhub/client.go.                       *)
(*                                                                         *)
(* The file holds two clients:                                             *)
(*   - the iothub device client (New, Connect, checkConnection, the        *)
(*     data-plane calls, Close): specifications Spec and FairSpec;         *)
(*   - the eventhub client (SubscribePartitions and its receiver           *)
(*     goroutines): specifications SpecSP and FairSpecSP;                  *)
(*   - the request/response calls of the eventhub client (PutToken,        *)
(*     PutTokenContinuously, getPartitionIDs) and its Close:               *)
(*     specifications SpecHub and FairSpecHub.                             *)
(* Each specification leaves the variables of the other parts unchanged.   *)
(***************************************************************************)
EXTENDS Integers, Sequences, FiniteSets, TLC

\* ------------------------------------------------------------------ bounds
NumProcs == 2
MaxCalls == 3
MaxParts == 2
MaxMsgs == 3
MaxRenewals == 2
MaxHubCloses == 2

Procs == 1..NumProcs

\* ------------------------------------------------------------- vocabulary
NoErr == "nil"
ErrClosed == "closed"
ErrAlreadyConnected == "already connected"
ErrCtx == "ctx.Err"
ErrTransport == "transport error"
ErrPayloadNil == "payload is nil"
ErrNameBlank == "name cannot be blank"
ErrRegistered == "method is already registered"
ErrJSON == "json error"
Pending == "pending"

DataOps == {"SendEvent", "SubscribeEvents", "RegisterMethod",
            "RetrieveTwinState", "UpdateTwinState", "SubscribeTwinUpdates"}

TrDataOps == {"Send", "SubscribeEvents", "RegisterDirectMethods",
              "RetrieveTwinProperties", "UpdateTwinProperties",
              "SubscribeTwinUpdates"}

Payloads == {"nil", "empty", "data"}
Names == {"", "m"}

\* the argument a call of operation o can be given
Args(o) == IF o = "SendEvent" THEN Payloads
           ELSE IF o = "RegisterMethod" THEN Names
           ELSE {"-"}

VARIABLES
    ready,          \* c.ready is closed
    done,           \* c.done is closed
    mu,             \* holder of c.mu, 0 when free
    evMux,          \* events multiplexer
    tsMux,          \* twin state multiplexer
    dmMux,          \* direct methods multiplexer
    pc,             \* position of each caller goroutine
    op,             \* the call a caller is in (or made last)
    arg,            \* payload / method name of the call in flight
    ctxDone,        \* the context of the call in flight is cancelled
    res,            \* result of the caller's last call
    onceErr,        \* what mux.once returned to the caller
    ncalls,         \* calls made so far, by all callers
    afterClose,     \* the caller's call began after a Close() had returned
    tore,           \* the caller's call is the Close that ran the teardown
    closeReturned,  \* some Close() call has returned
    trConnectCalls, \* tr.Connect calls
    trConnectOK,    \* successful tr.Connect calls
    readyOpens,     \* executions of close(c.ready)
    doneCloses,     \* executions of close(c.done)
    muxCloses,      \* executions of the multiplexer closes of Close
    trCloseCalls,   \* tr.Close calls
    trCalls         \* data-plane calls of the transport, per function

gateVars == <<ready, done, mu>>
muxVars == <<evMux, tsMux, dmMux>>
callVars == <<op, ncalls, afterClose>>
connCount == <<trConnectCalls, trConnectOK, readyOpens>>
closeCount == <<closeReturned, doneCloses, muxCloses, trCloseCalls>>

devVars == <<ready, done, mu, evMux, tsMux, dmMux, pc, op, arg, ctxDone, res,
             onceErr, ncalls, afterClose, tore, closeReturned, trConnectCalls,
             trConnectOK, readyOpens, doneCloses, muxCloses, trCloseCalls,
             trCalls>>

VARIABLES
    spPc,           \* position of the SubscribePartitions call
    spRet,          \* its result
    spCtxDone,      \* the caller's context is cancelled
    ids,            \* number of partitions getPartitionIDs returned
    nextId,         \* index of the next partition of the `for _, id` loop
    msgc,           \* the buffered message channel
    errc,           \* the buffered error channel
    rpc,            \* position of each partition's receiver goroutine
    rmsg,           \* the message a receiver goroutine holds
    rerr,           \* the error a receiver goroutine holds
    nrecv,          \* messages the transport delivered, per partition
    linkOpen,       \* the receiver link of a partition is open
    cbPending,      \* messages whose `go f(msg)` has not started yet
    cbStarted,      \* messages whose callback has started
    disc,           \* the response getPartitionIDs received
    spErrDetail,    \* code and description of the error it returned
    mgmtLinks       \* links open on the session for the $management exchange

spVars == <<spPc, spRet, spCtxDone, ids, nextId, msgc, errc, rpc, rmsg, rerr,
            nrecv, linkOpen, cbPending, cbStarted, disc, spErrDetail,
            mgmtLinks>>

VARIABLES
    hDone,          \* c.done of the eventhub client is closed
    sessOpen,       \* c.sess has not been closed
    connOpen,       \* c.conn has not been closed
    hCloses,        \* Close() calls of the eventhub client that returned
    hCloseRes,      \* result of the last of them
    sessCloseCalls, \* c.sess.Close calls
    connCloseCalls, \* c.conn.Close calls
    ptPc,           \* position of each task inside PutToken
    ptRes,          \* result of the task's last PutToken
    ptResp,         \* the response that PutToken received
    ptAcked,        \* that response was acknowledged (msg.Accept())
    links,          \* links open on the session for the $cbs exchange
    linkOpens,      \* links PutToken has opened so far
    ptcPc,          \* position of the PutTokenContinuously call
    ptcRet,         \* its result
    loopPc,         \* position of the renewal goroutine
    loopFailed,     \* a renewal failed
    timerFired,     \* the channel of time.After has a value
    stopClosed,     \* stopCh is closed
    renewals,       \* renewals started
    renewAfterStop  \* renewals started after stopCh was closed

hcloseVars == <<hDone, sessOpen, connOpen, hCloses, hCloseRes, sessCloseCalls,
                connCloseCalls>>
putVars == <<ptPc, ptRes, ptResp, ptAcked, links, linkOpens>>
ptcVars == <<ptcPc, ptcRet>>
loopVars == <<loopPc, loopFailed, timerFired, renewals, renewAfterStop>>

hubVars == <<hDone, sessOpen, connOpen, hCloses, hCloseRes, sessCloseCalls,
             connCloseCalls, ptPc, ptRes, ptResp, ptAcked, links, linkOpens,
             ptcPc, ptcRet, loopPc, loopFailed, timerFired, stopClosed, renewals,
             renewAfterStop>>

vars == <<devVars, spVars, hubVars>>

\* ------------------------------------------------------------ multiplexers
\* newEventsMux / newTwinStateMux
newMux == [err |-> NoErr, setup |-> FALSE, busy |-> FALSE]

\* newMethodMux: the registry of direct method handlers
newMethodMux ==
    [err |-> NoErr, setup |-> FALSE, busy |-> FALSE, handlers |-> {}]

\* mux.close(err): the first error wins
MuxClose(m, err) == IF m.err = NoErr THEN [m EXCEPT !.err = err] ELSE m

\* mux.once(setup): a caller that finds the link neither set up nor being
\* set up starts the one execution of setup
MuxOnceEnter(m) == [m EXCEPT !.busy = TRUE]

\* mux.once(setup): the execution ends; setup is memoized on success only
MuxOnce(m, ok) == [m EXCEPT !.setup = ok, !.busy = FALSE]

\* methodMux.handle(name, fn): a name is registered once
MuxHandle(m, name) ==
    IF name \in m.handlers THEN m
    ELSE [m EXCEPT !.handlers = @ \cup {name}]

\* ------------------------------------------------------------------- New
DevInit ==
    /\ ready = FALSE
    /\ done = FALSE
    /\ mu = 0
    /\ evMux = newMux
    /\ tsMux = newMux
    /\ dmMux = newMethodMux
    /\ pc = [p \in Procs |-> "idle"]
    /\ op = [p \in Procs |-> "none"]
    /\ arg = [p \in Procs |-> "-"]
    /\ ctxDone = [p \in Procs |-> FALSE]
    /\ res = [p \in Procs |-> NoErr]
    /\ onceErr = [p \in Procs |-> NoErr]
    /\ ncalls = 0
    /\ afterClose = [p \in Procs |-> FALSE]
    /\ tore = [p \in Procs |-> FALSE]
    /\ closeReturned = FALSE
    /\ trConnectCalls = 0
    /\ trConnectOK = 0
    /\ readyOpens = 0
    /\ doneCloses = 0
    /\ muxCloses = 0
    /\ trCloseCalls = 0
    /\ trCalls = [f \in TrDataOps |-> 0]

\* a caller goroutine returns from its call with result r
Return(p, r) ==
    /\ pc' = [pc EXCEPT ![p] = "idle"]
    /\ res' = [res EXCEPT ![p] = r]
    /\ arg' = [arg EXCEPT ![p] = "-"]
    /\ ctxDone' = [ctxDone EXCEPT ![p] = FALSE]
    /\ onceErr' = [onceErr EXCEPT ![p] = NoErr]

\* a caller goroutine moves on inside its call
Goto(p, loc) ==
    /\ pc' = [pc EXCEPT ![p] = loc]
    /\ UNCHANGED <<res, arg, ctxDone, onceErr>>

\* a caller goroutine enters a call of the client; the context matters to
\* the data-plane calls only (Connect hands it to the transport, whose
\* outcome is an input of ConnectTransport)
Call(p, o, a, cancelled) ==
    /\ pc[p] = "idle"
    /\ ncalls < MaxCalls
    /\ a \in Args(o)
    /\ cancelled => o \in DataOps
    /\ ncalls' = ncalls + 1
    /\ op' = [op EXCEPT ![p] = o]
    /\ arg' = [arg EXCEPT ![p] = a]
    /\ ctxDone' = [ctxDone EXCEPT ![p] = cancelled]
    /\ res' = [res EXCEPT ![p] = Pending]
    /\ UNCHANGED onceErr
    /\ afterClose' = [afterClose EXCEPT ![p] = closeReturned]
    /\ tore' = [tore EXCEPT ![p] = FALSE]
    /\ pc' = [pc EXCEPT ![p] = IF o = "Connect" THEN "connect"
                                ELSE IF o = "Close" THEN "close"
                                ELSE "check"]
    /\ UNCHANGED <<gateVars, muxVars, connCount, closeCount, trCalls>>
    /\ UNCHANGED <<spVars, hubVars>>

\* the context of a data-plane call in flight is cancelled
CancelCtx(p) ==
    /\ pc[p] \in {"check", "run"}
    /\ ~ctxDone[p]
    /\ ctxDone' = [ctxDone EXCEPT ![p] = TRUE]
    /\ UNCHANGED <<gateVars, muxVars, callVars, pc, arg, res, onceErr, tore,
                   connCount, closeCount, trCalls>>
    /\ UNCHANGED <<spVars, hubVars>>

\* --------------------------------------------------------------- Connect
\* ConnectLock without the `case <-c.ready` of its select
ConnectLockUnguarded(p) ==
    /\ pc[p] = "connect"
    /\ mu = 0
    /\ mu' = p
    /\ Goto(p, "connect_tr")
    /\ UNCHANGED <<ready, done, muxVars, callVars, tore, connCount,
                   closeCount, trCalls>>
    /\ UNCHANGED <<spVars, hubVars>>

\* c.mu.Lock(); select { case <-c.ready: unlock, "already connected" }
ConnectLock(p) ==
    /\ pc[p] = "connect"
    /\ mu = 0
    /\ IF ready
         THEN /\ Return(p, ErrAlreadyConnected)
              /\ mu' = mu
         ELSE /\ mu' = p
              /\ Goto(p, "connect_tr")
    /\ UNCHANGED <<ready, done, muxVars, callVars, tore, connCount,
                   closeCount, trCalls>>
    /\ UNCHANGED <<spVars, hubVars>>

\* err := c.tr.Connect(ctx, c.creds); if err == nil { close(c.ready) }
ConnectTransport(p, ok) ==
    /\ pc[p] = "connect_tr"
    /\ mu = p
    /\ trConnectCalls' = trConnectCalls + 1
    /\ trConnectOK' = trConnectOK + (IF ok THEN 1 ELSE 0)
    /\ readyOpens' = readyOpens + (IF ok THEN 1 ELSE 0)
    /\ ready' = (ready \/ ok)
    /\ mu' = 0
    /\ Return(p, IF ok THEN NoErr ELSE ErrTransport)
    /\ UNCHANGED <<done, muxVars, callVars, tore, closeCount, trCalls>>
    /\ UNCHANGED <<spVars, hubVars>>

\* ------------------------------------------------------- checkConnection
\* checkConnection with `case <-c.done: return nil`
checkConnectionDoneNil(rdy, dn, cancelled) ==
    (IF rdy \/ dn THEN {NoErr} ELSE {})
      \cup (IF cancelled THEN {ErrCtx} ELSE {})

\* checkConnection without the `case <-c.done` of its select
checkConnectionNoDone(rdy, dn, cancelled) ==
    (IF rdy THEN {NoErr} ELSE {})
      \cup (IF cancelled THEN {ErrCtx} ELSE {})

\* the cases of the select that are ready; the Go runtime picks any of them,
\* and the goroutine stays blocked while there is none
checkConnection(rdy, dn, cancelled) ==
    (IF rdy THEN {NoErr} ELSE {})
      \cup (IF dn THEN {ErrClosed} ELSE {})
      \cup (IF cancelled THEN {ErrCtx} ELSE {})

CheckConnection(p) ==
    /\ pc[p] = "check"
    /\ \E r \in checkConnection(ready, done, ctxDone[p]) :
         IF r = NoErr THEN Goto(p, "run") ELSE Return(p, r)
    /\ UNCHANGED <<gateVars, muxVars, callVars, tore, connCount, closeCount,
                   trCalls>>
    /\ UNCHANGED <<spVars, hubVars>>

\* ------------------------------------------------------------- SendEvent
\* the rest of the call, once checkConnection returned nil
SendEvent(p, ok) ==
    /\ pc[p] = "run"
    /\ op[p] = "SendEvent"
    /\ IF arg[p] = "nil"
         THEN /\ Return(p, ErrPayloadNil)
              /\ trCalls' = trCalls
         ELSE /\ trCalls' = [trCalls EXCEPT !["Send"] = @ + 1]
              /\ Return(p, IF ok THEN NoErr ELSE ErrTransport)
    /\ UNCHANGED <<gateVars, muxVars, callVars, tore, connCount, closeCount>>
    /\ UNCHANGED <<spVars, hubVars>>

\* ------------------------------------------------------- SubscribeEvents
\* SubscribeEvents bypassing c.evMux.once: it calls tr.SubscribeEvents itself
SubscribeEventsDirect(p) ==
    /\ pc[p] = "run"
    /\ op[p] = "SubscribeEvents"
    /\ evMux' = MuxOnceEnter(evMux)
    /\ trCalls' = [trCalls EXCEPT !["SubscribeEvents"] = @ + 1]
    /\ Goto(p, "once_setup")
    /\ UNCHANGED <<gateVars, tsMux, dmMux, callVars, tore, connCount,
                   closeCount>>
    /\ UNCHANGED <<spVars, hubVars>>

\* c.evMux.once(func() error { return c.tr.SubscribeEvents(ctx, c.evMux) })
\* is entered: the link is set up, is being set up, or p sets it up
SubscribeEvents(p) ==
    /\ pc[p] = "run"
    /\ op[p] = "SubscribeEvents"
    /\ IF evMux.setup
         THEN Return(p, NoErr) /\ UNCHANGED <<evMux, trCalls>>
         ELSE IF evMux.busy
           THEN Goto(p, "once_wait") /\ UNCHANGED <<evMux, trCalls>>
           ELSE /\ evMux' = MuxOnceEnter(evMux)
                /\ trCalls' = [trCalls EXCEPT !["SubscribeEvents"] = @ + 1]
                /\ Goto(p, "once_setup")
    /\ UNCHANGED <<gateVars, tsMux, dmMux, callVars, tore, connCount,
                   closeCount>>
    /\ UNCHANGED <<spVars, hubVars>>

\* -------------------------------------------------------- RegisterMethod
RegisterMethod(p) ==
    /\ pc[p] = "run"
    /\ op[p] = "RegisterMethod"
    /\ IF arg[p] = ""
         THEN Return(p, ErrNameBlank) /\ UNCHANGED <<dmMux, trCalls>>
         ELSE IF dmMux.setup
           THEN /\ dmMux' = MuxHandle(dmMux, arg[p])
                /\ Return(p, IF arg[p] \in dmMux.handlers THEN ErrRegistered
                             ELSE NoErr)
                /\ UNCHANGED trCalls
           ELSE IF dmMux.busy
             THEN Goto(p, "once_wait") /\ UNCHANGED <<dmMux, trCalls>>
             ELSE /\ dmMux' = MuxOnceEnter(dmMux)
                  /\ trCalls' = [trCalls EXCEPT
                                   !["RegisterDirectMethods"] = @ + 1]
                  /\ Goto(p, "once_setup")
    /\ UNCHANGED <<gateVars, evMux, tsMux, callVars, tore, connCount,
                   closeCount>>
    /\ UNCHANGED <<spVars, hubVars>>

\* ----------------------------------------------------- RetrieveTwinState
\* out: the transport fails, returns a document, or returns invalid json
RetrieveTwinState(p, out) ==
    /\ pc[p] = "run"
    /\ op[p] = "RetrieveTwinState"
    /\ trCalls' = [trCalls EXCEPT !["RetrieveTwinProperties"] = @ + 1]
    /\ Return(p, IF out = "fail" THEN ErrTransport
                 ELSE IF out = "badjson" THEN ErrJSON
                 ELSE NoErr)
    /\ UNCHANGED <<gateVars, muxVars, callVars, tore, connCount, closeCount>>
    /\ UNCHANGED <<spVars, hubVars>>

\* ------------------------------------------------------- UpdateTwinState
\* out: json.Marshal fails, or the transport fails or succeeds
UpdateTwinState(p, out) ==
    /\ pc[p] = "run"
    /\ op[p] = "UpdateTwinState"
    /\ IF out = "badjson"
         THEN /\ Return(p, ErrJSON)
              /\ trCalls' = trCalls
         ELSE /\ trCalls' = [trCalls EXCEPT !["UpdateTwinProperties"] = @ + 1]
              /\ Return(p, IF out = "ok" THEN NoErr ELSE ErrTransport)
    /\ UNCHANGED <<gateVars, muxVars, callVars, tore, connCount, closeCount>>
    /\ UNCHANGED <<spVars, hubVars>>

\* -------------------------------------------------- SubscribeTwinUpdates
SubscribeTwinUpdates(p) ==
    /\ pc[p] = "run"
    /\ op[p] = "SubscribeTwinUpdates"
    /\ IF tsMux.setup
         THEN Return(p, NoErr) /\ UNCHANGED <<tsMux, trCalls>>
         ELSE IF tsMux.busy
           THEN Goto(p, "once_wait") /\ UNCHANGED <<tsMux, trCalls>>
           ELSE /\ tsMux' = MuxOnceEnter(tsMux)
                /\ trCalls' = [trCalls EXCEPT
                                 !["SubscribeTwinUpdates"] = @ + 1]
                /\ Goto(p, "once_setup")
    /\ UNCHANGED <<gateVars, evMux, dmMux, callVars, tore, connCount,
                   closeCount>>
    /\ UNCHANGED <<spVars, hubVars>>

\* ------------------------------------------------------------- mux.once
\* the calls of the client that go through a multiplexer's once
OnceOps == {"SubscribeEvents", "SubscribeTwinUpdates", "RegisterMethod"}

\* the callers inside once of the multiplexer of call o: the one that
\* executes setup and those that wait for it
InOnce(o) ==
    {q \in Procs : op[q] = o /\ pc[q] \in {"once_setup", "once_wait"}}

\* the transport's setup function returns to p; once hands its outcome to p
\* and to every caller that waits for this execution
OnceSetup(p, ok) ==
    /\ pc[p] = "once_setup"
    /\ evMux' = IF op[p] = "SubscribeEvents" THEN MuxOnce(evMux, ok) ELSE evMux
    /\ tsMux' = IF op[p] = "SubscribeTwinUpdates" THEN MuxOnce(tsMux, ok)
                ELSE tsMux
    /\ dmMux' = IF op[p] = "RegisterMethod" THEN MuxOnce(dmMux, ok) ELSE dmMux
    /\ pc' = [q \in Procs |-> IF q \in InOnce(op[p]) THEN "once_done"
                              ELSE pc[q]]
    /\ onceErr' = [q \in Procs |->
                     IF q \in InOnce(op[p])
                     THEN (IF ok THEN NoErr ELSE ErrTransport)
                     ELSE onceErr[q]]
    /\ UNCHANGED <<gateVars, callVars, arg, ctxDone, res, tore, connCount,
                   closeCount, trCalls>>
    /\ UNCHANGED <<spVars, hubVars>>

\* the rest of the call after once returned: `return nil, err`, or
\* c.evMux.sub() / c.tsMux.sub() / c.dmMux.handle(name, fn)
AfterOnce(p) ==
    /\ pc[p] = "once_done"
    /\ IF onceErr[p] # NoErr
         THEN Return(p, onceErr[p]) /\ UNCHANGED dmMux
         ELSE IF op[p] = "RegisterMethod"
           THEN /\ dmMux' = MuxHandle(dmMux, arg[p])
                /\ Return(p, IF arg[p] \in dmMux.handlers THEN ErrRegistered
                             ELSE NoErr)
           ELSE Return(p, NoErr) /\ UNCHANGED dmMux
    /\ UNCHANGED <<gateVars, evMux, tsMux, callVars, tore, connCount,
                   closeCount, trCalls>>
    /\ UNCHANGED <<spVars, hubVars>>

\* ----------------------------------------------------------------- Close
\* CloseLock without the `case <-c.done` of its select
CloseLockUnguarded(p) ==
    /\ pc[p] = "close"
    /\ mu = 0
    /\ mu' = p
    /\ done' = TRUE
    /\ doneCloses' = doneCloses + 1
    /\ tore' = [tore EXCEPT ![p] = TRUE]
    /\ Goto(p, "close_mux")
    /\ UNCHANGED <<ready, muxVars, callVars, connCount, closeReturned,
                   muxCloses, trCloseCalls, trCalls>>
    /\ UNCHANGED <<spVars, hubVars>>

\* c.mu.Lock(); select { case <-c.done: return nil; default: close(c.done) }
CloseLock(p) ==
    /\ pc[p] = "close"
    /\ mu = 0
    /\ IF done
         THEN /\ Return(p, NoErr)
              /\ closeReturned' = TRUE
              /\ UNCHANGED <<mu, done, doneCloses, tore>>
         ELSE /\ mu' = p
              /\ done' = TRUE
              /\ doneCloses' = doneCloses + 1
              /\ tore' = [tore EXCEPT ![p] = TRUE]
              /\ Goto(p, "close_mux")
              /\ UNCHANGED closeReturned
    /\ UNCHANGED <<ready, muxVars, callVars, connCount, muxCloses,
                   trCloseCalls, trCalls>>
    /\ UNCHANGED <<spVars, hubVars>>

\* c.evMux.close(ErrClosed); c.tsMux.close(ErrClosed)
CloseMuxes(p) ==
    /\ pc[p] = "close_mux"
    /\ mu = p
    /\ evMux' = MuxClose(evMux, ErrClosed)
    /\ tsMux' = MuxClose(tsMux, ErrClosed)
    /\ muxCloses' = muxCloses + 1
    /\ Goto(p, "close_tr")
    /\ UNCHANGED <<gateVars, dmMux, callVars, tore, connCount, closeReturned,
                   doneCloses, trCloseCalls, trCalls>>
    /\ UNCHANGED <<spVars, hubVars>>

\* return c.tr.Close(), then the deferred c.mu.Unlock()
CloseTransport(p, ok) ==
    /\ pc[p] = "close_tr"
    /\ mu = p
    /\ trCloseCalls' = trCloseCalls + 1
    /\ mu' = 0
    /\ closeReturned' = TRUE
    /\ Return(p, IF ok THEN NoErr ELSE ErrTransport)
    /\ UNCHANGED <<ready, done, muxVars, callVars, tore, connCount,
                   doneCloses, muxCloses, trCalls>>
    /\ UNCHANGED <<spVars, hubVars>>

\* ----------------------------------------------------- the device client
Next ==
    \/ \E p \in Procs, o \in DataOps \cup {"Connect", "Close"}, c \in BOOLEAN :
         \E a \in Args(o) : Call(p, o, a, c)
    \/ \E p \in Procs : CancelCtx(p)
    \/ \E p \in Procs : ConnectLock(p)
    \/ \E p \in Procs, ok \in BOOLEAN : ConnectTransport(p, ok)
    \/ \E p \in Procs : CheckConnection(p)
    \/ \E p \in Procs, ok \in BOOLEAN : SendEvent(p, ok)
    \/ \E p \in Procs : SubscribeEvents(p)
    \/ \E p \in Procs : RegisterMethod(p)
    \/ \E p \in Procs, out \in {"ok", "fail", "badjson"} : RetrieveTwinState(p, out)
    \/ \E p \in Procs, out \in {"ok", "fail", "badjson"} : UpdateTwinState(p, out)
    \/ \E p \in Procs : SubscribeTwinUpdates(p)
    \/ \E p \in Procs, ok \in BOOLEAN : OnceSetup(p, ok)
    \/ \E p \in Procs : AfterOnce(p)
    \/ \E p \in Procs : CloseLock(p)
    \/ \E p \in Procs : CloseMuxes(p)
    \/ \E p \in Procs, ok \in BOOLEAN : CloseTransport(p, ok)

\* ---------------------------------------------------- SubscribePartitions
Parts == 1..MaxParts
NoMsg == <<0, 0>>
AllMsgs == Parts \X (1..MaxMsgs)
ErrLink == "link error"
ErrMismatch == "message-id mismatch"
ErrTypecast == "unable to typecast"
ErrStatus == "code != 200"

\* errors of SubscribePartitions: the kind, and the partition whose receiver
\* reported it (0 for an error of the call itself)
SPErr(kind) == <<kind, 0>>
\* the error a failed r.Receive of partition r returns
ErrReceive(r) == <<"receive error", r>>

\* the status-code property is missing or is not an int32
NoStatus == -1
StatusCodes == {200, 404, NoStatus}

\* the variant that does not test `ok` of the type assertion: a missing
\* status-code reads as the zero value
CheckMessageResponseUnchecked(rc) ==
    IF rc = 200 THEN NoErr ELSE ErrStatus

\* CheckMessageResponse: rc is the status-code application property
CheckMessageResponse(rc) ==
    IF rc = NoStatus THEN ErrTypecast
    ELSE IF rc = 200 THEN NoErr
    ELSE ErrStatus

\* the status-description application property the service sends with rc
Description(rc) == IF rc = 404 THEN "not found" ELSE ""

\* an error of the request/response calls: kind, status code, description
HErr(kind) == <<kind, 0, "">>

\* the error CheckMessageResponse builds from the response:
\* fmt.Errorf("code = %d, description = %q", rc, rd) when rc is not 200
ResponseError(rc) ==
    IF CheckMessageResponse(rc) = ErrStatus
    THEN <<ErrStatus, rc, Description(rc)>>
    ELSE HErr(CheckMessageResponse(rc))

\* links that two successive NewReceiver/NewSender calls opened
linksOpened(first, second) ==
    (IF first THEN 1 ELSE 0) + (IF first /\ second THEN 1 ELSE 0)

\* the variant that registers both deferred Close calls only once both
\* links are open
deferredClosesLate(first, second) == IF first /\ second THEN 2 ELSE 0

\* the deferred Close calls that run at the return: one is registered
\* right after each link that was opened
deferredCloses(first, second) ==
    (IF first THEN 1 ELSE 0) + (IF first /\ second THEN 1 ELSE 0)

\* the variant without the comparison of CorrelationID with msgID
getPartitionIDsNoCorrelation(recvLink, sendLink, sent, received, rc, corrOK, valueOK) ==
    IF ~recvLink \/ ~sendLink THEN ErrLink
    ELSE IF ~sent \/ ~received THEN ErrTransport
    ELSE IF CheckMessageResponse(rc) # NoErr THEN CheckMessageResponse(rc)
    ELSE IF ~valueOK THEN ErrTypecast
    ELSE NoErr

\* getPartitionIDs: the error it returns (NoErr when it returns the ids),
\* given the outcome of each transport call and the shape of the response
getPartitionIDs(recvLink, sendLink, sent, received, rc, corrOK, valueOK) ==
    IF ~recvLink \/ ~sendLink THEN ErrLink
    ELSE IF ~sent \/ ~received THEN ErrTransport
    ELSE IF CheckMessageResponse(rc) # NoErr THEN CheckMessageResponse(rc)
    ELSE IF ~corrOK THEN ErrMismatch
    ELSE IF ~valueOK THEN ErrTypecast
    ELSE NoErr

\* getPartitionIDs received no response
NoDisc == <<FALSE, NoStatus, FALSE>>

SPInit ==
    /\ spPc = "start"
    /\ spRet = SPErr(Pending)
    /\ spCtxDone = FALSE
    /\ ids = 0
    /\ nextId = 1
    /\ msgc = <<>>
    /\ errc = <<>>
    /\ rpc = [r \in Parts |-> "none"]
    /\ rmsg = [r \in Parts |-> NoMsg]
    /\ rerr = [r \in Parts |-> SPErr(NoErr)]
    /\ nrecv = [r \in Parts |-> 0]
    /\ linkOpen = [r \in Parts |-> FALSE]
    /\ cbPending = {}
    /\ cbStarted = {}
    /\ disc = NoDisc
    /\ spErrDetail = HErr(NoErr)
    /\ mgmtLinks = 0

mainVars == <<spPc, spRet, ids, nextId>>
cbVars == <<cbPending, cbStarted>>
discVars == <<disc, spErrDetail, mgmtLinks>>

\* the context derived by context.WithCancel(ctx): done when the caller's
\* context is, or when the deferred cancel() ran at the return of the call
\* (a return out of getPartitionIDs happens before any receiver exists)
innerDone == spCtxDone \/ spPc = "returned"

\* messages the receiver goroutines have acknowledged (msg.Accept())
Accepted ==
    {m \in AllMsgs : m[2] <= nrecv[m[1]]
                     /\ ~(rpc[m[1]] = "accept" /\ rmsg[m[1]] = m)}

\* the caller cancels the context it passed
SPCancel ==
    /\ ~spCtxDone
    /\ spCtxDone' = TRUE
    /\ UNCHANGED <<mainVars, msgc, errc, rpc, rmsg, rerr, nrecv, linkOpen,
                   cbVars>>
    /\ UNCHANGED discVars
    /\ UNCHANGED <<devVars, hubVars>>

\* ids, err := getPartitionIDs(ctx, sess, name); if err != nil { return err }
\* (recv.Receive(ctx) fails once the context is cancelled)
SubscribePartitionsStart(rl, sl, sent, rcvd, rc, corrOK, valueOK, n) ==
    /\ spPc = "start"
    /\ spCtxDone => ~rcvd
    /\ LET err == getPartitionIDs(rl, sl, sent, rcvd, rc, corrOK, valueOK)
       IN IF err # NoErr
            THEN /\ spPc' = "returned"
                 /\ spRet' = SPErr(err)
                 /\ spErrDetail' = IF err = ErrStatus THEN ResponseError(rc)
                                   ELSE HErr(err)
                 /\ UNCHANGED <<ids, nextId>>
            ELSE /\ spPc' = IF n = 0 THEN "select" ELSE "open"
                 /\ ids' = n
                 /\ UNCHANGED <<spRet, nextId, spErrDetail>>
    /\ disc' = IF rl /\ sl /\ sent /\ rcvd THEN <<TRUE, rc, corrOK>>
               ELSE NoDisc
    /\ mgmtLinks' = mgmtLinks + linksOpened(rl, sl) - deferredCloses(rl, sl)
    /\ UNCHANGED <<spCtxDone, msgc, errc, rpc, rmsg, rerr, nrecv, linkOpen,
                   cbVars>>
    /\ UNCHANGED <<devVars, hubVars>>

\* one iteration of the loop: sess.NewReceiver(...), then `go func(r)`
OpenReceiver(ok) ==
    /\ spPc = "open"
    /\ IF ok
         THEN /\ rpc' = [rpc EXCEPT ![nextId] = "receive"]
              /\ linkOpen' = [linkOpen EXCEPT ![nextId] = TRUE]
              /\ nextId' = nextId + 1
              /\ spPc' = IF nextId = ids THEN "select" ELSE "open"
              /\ UNCHANGED spRet
         ELSE /\ spPc' = "returned"
              /\ spRet' = SPErr(ErrLink)
              /\ UNCHANGED <<rpc, linkOpen, nextId>>
    /\ UNCHANGED <<spCtxDone, ids, msgc, errc, rmsg, rerr, nrecv, cbVars>>
    /\ UNCHANGED discVars
    /\ UNCHANGED <<devVars, hubVars>>

RECURSIVE Delivered(_)
\* messages the transport delivered from the partitions 1..r
Delivered(r) == IF r = 0 THEN 0 ELSE nrecv[r] + Delivered(r - 1)

\* r.Receive(ctx) returns the next message of the partition; the transport
\* has MaxMsgs messages to deliver in all
ReceiveMsg(r) ==
    /\ rpc[r] = "receive"
    /\ ~innerDone
    /\ Delivered(MaxParts) < MaxMsgs
    /\ nrecv' = [nrecv EXCEPT ![r] = @ + 1]
    /\ rmsg' = [rmsg EXCEPT ![r] = <<r, nrecv[r] + 1>>]
    /\ rpc' = [rpc EXCEPT ![r] = "accept"]
    /\ UNCHANGED <<mainVars, spCtxDone, msgc, errc, rerr, linkOpen, cbVars>>
    /\ UNCHANGED discVars
    /\ UNCHANGED <<devVars, hubVars>>

\* r.Receive(ctx) fails in the transport
ReceiveErr(r) ==
    /\ rpc[r] = "receive"
    /\ ~innerDone
    /\ rerr' = [rerr EXCEPT ![r] = ErrReceive(r)]
    /\ rpc' = [rpc EXCEPT ![r] = "senderr"]
    /\ UNCHANGED <<mainVars, spCtxDone, msgc, errc, rmsg, nrecv, linkOpen,
                   cbVars>>
    /\ UNCHANGED discVars
    /\ UNCHANGED <<devVars, hubVars>>

\* r.Receive(ctx) returns the context's error once the context is done
ReceiveCancelled(r) ==
    /\ rpc[r] = "receive"
    /\ innerDone
    /\ rerr' = [rerr EXCEPT ![r] = SPErr(ErrCtx)]
    /\ rpc' = [rpc EXCEPT ![r] = "senderr"]
    /\ UNCHANGED <<mainVars, spCtxDone, msgc, errc, rmsg, nrecv, linkOpen,
                   cbVars>>
    /\ UNCHANGED discVars
    /\ UNCHANGED <<devVars, hubVars>>

\* msg.Accept()
Accept(r) ==
    /\ rpc[r] = "accept"
    /\ rpc' = [rpc EXCEPT ![r] = "sendmsg"]
    /\ UNCHANGED <<mainVars, spCtxDone, msgc, errc, rmsg, rerr, nrecv,
                   linkOpen, cbVars>>
    /\ UNCHANGED discVars
    /\ UNCHANGED <<devVars, hubVars>>

\* msgc <- msg, blocking while the buffer of len(ids) is full
SendMsg(r) ==
    /\ rpc[r] = "sendmsg"
    /\ Len(msgc) < ids
    /\ msgc' = Append(msgc, rmsg[r])
    /\ rmsg' = [rmsg EXCEPT ![r] = NoMsg]
    /\ rpc' = [rpc EXCEPT ![r] = "receive"]
    /\ UNCHANGED <<mainVars, spCtxDone, errc, rerr, nrecv, linkOpen, cbVars>>
    /\ UNCHANGED discVars
    /\ UNCHANGED <<devVars, hubVars>>

\* errc <- err; return, running the deferred recv.Close()
SendErr(r) ==
    /\ rpc[r] = "senderr"
    /\ Len(errc) < ids
    /\ errc' = Append(errc, rerr[r])
    /\ rerr' = [rerr EXCEPT ![r] = SPErr(NoErr)]
    /\ rpc' = [rpc EXCEPT ![r] = "closed"]
    /\ linkOpen' = [linkOpen EXCEPT ![r] = FALSE]
    /\ UNCHANGED <<mainVars, spCtxDone, msgc, rmsg, nrecv, cbVars>>
    /\ UNCHANGED discVars
    /\ UNCHANGED <<devVars, hubVars>>

\* select { case msg := <-msgc: go f(msg) }
SelectMsg ==
    /\ spPc = "select"
    /\ msgc # <<>>
    /\ msgc' = Tail(msgc)
    /\ cbPending' = cbPending \cup {Head(msgc)}
    /\ UNCHANGED <<mainVars, spCtxDone, errc, rpc, rmsg, rerr, nrecv,
                   linkOpen, cbStarted>>
    /\ UNCHANGED discVars
    /\ UNCHANGED <<devVars, hubVars>>

\* select { case err := <-errc: return err }, running the deferred cancel()
SelectErr ==
    /\ spPc = "select"
    /\ errc # <<>>
    /\ errc' = Tail(errc)
    /\ spRet' = Head(errc)
    /\ spPc' = "returned"
    /\ UNCHANGED <<spCtxDone, ids, nextId, msgc, rpc, rmsg, rerr, nrecv,
                   linkOpen, cbVars>>
    /\ UNCHANGED discVars
    /\ UNCHANGED <<devVars, hubVars>>

\* the goroutine of `go f(msg)` is scheduled and invokes the callback
CallbackStart(m) ==
    /\ m \in cbPending
    /\ cbPending' = cbPending \ {m}
    /\ cbStarted' = cbStarted \cup {m}
    /\ UNCHANGED <<mainVars, spCtxDone, msgc, errc, rpc, rmsg, rerr, nrecv,
                   linkOpen>>
    /\ UNCHANGED discVars
    /\ UNCHANGED <<devVars, hubVars>>

NextSP ==
    \/ SPCancel
    \/ \E rl, sl, sent, rcvd, corrOK, valueOK \in BOOLEAN :
         \E rc \in StatusCodes, n \in 0..MaxParts :
           SubscribePartitionsStart(rl, sl, sent, rcvd, rc, corrOK, valueOK, n)
    \/ \E ok \in BOOLEAN : OpenReceiver(ok)
    \/ \E r \in Parts : ReceiveMsg(r)
    \/ \E r \in Parts : ReceiveErr(r)
    \/ \E r \in Parts : ReceiveCancelled(r)
    \/ \E r \in Parts : Accept(r)
    \/ \E r \in Parts : SendMsg(r)
    \/ \E r \in Parts : SendErr(r)
    \/ SelectMsg
    \/ SelectErr
    \/ \E m \in AllMsgs : CallbackStart(m)

\* ------------------------------------------------- eventhub: $cbs, Close
\* the tasks that call PutToken: the PutTokenContinuously call itself and
\* the renewal goroutine it starts
Tasks == {"first", "loop"}

\* PutToken received no response
NoResp == <<FALSE, NoStatus>>

HubInit ==
    /\ hDone = FALSE
    /\ sessOpen = TRUE
    /\ connOpen = TRUE
    /\ hCloses = 0
    /\ hCloseRes = Pending
    /\ sessCloseCalls = 0
    /\ connCloseCalls = 0
    /\ ptPc = [t \in Tasks |-> "off"]
    /\ ptRes = [t \in Tasks |-> HErr(Pending)]
    /\ ptResp = [t \in Tasks |-> NoResp]
    /\ ptAcked = [t \in Tasks |-> FALSE]
    /\ links = 0
    /\ linkOpens = 0
    /\ ptcPc = "start"
    /\ ptcRet = HErr(Pending)
    /\ loopPc = "none"
    /\ loopFailed = FALSE
    /\ timerFired = FALSE
    /\ stopClosed = FALSE
    /\ renewals = 0
    /\ renewAfterStop = 0

\* the variant that starts the goroutine before it looks at the error
loopAfterFirstAlways(r) == "select"

\* PutTokenContinuously after its first PutToken returned r: `return err`,
\* or `go func() {...}()` and `return nil`
loopAfterFirst(r) == IF r = HErr(NoErr) THEN "select" ELSE "none"

\* PutToken of task t returns r to its caller
PutTokenReturn(t, r) ==
    /\ ptPc' = [ptPc EXCEPT ![t] = "off"]
    /\ ptRes' = [ptRes EXCEPT ![t] = r]
    /\ IF t = "first"
         THEN /\ ptcPc' = "returned"
              /\ ptcRet' = r
              /\ loopPc' = loopAfterFirst(r)
              /\ UNCHANGED loopFailed
         ELSE /\ loopPc' = IF r = HErr(NoErr) THEN "select" ELSE "exit"
              /\ loopFailed' = (r # HErr(NoErr))
              /\ UNCHANGED ptcVars

\* err := c.PutToken(ctx, audience, token): the call starts
PutTokenContinuously ==
    /\ ptcPc = "start"
    /\ ptcPc' = "first"
    /\ ptPc' = [ptPc EXCEPT !["first"] = "call"]
    /\ UNCHANGED <<ptRes, ptResp, ptAcked, links, linkOpens, ptcRet,
                   loopVars, stopClosed, hcloseVars>>
    /\ UNCHANGED <<devVars, spVars>>

\* PutToken up to send.Send: NewSender, NewReceiver, Send
PutTokenSend(t, sl, rl, sent) ==
    /\ ptPc[t] = "call"
    /\ ptResp' = [ptResp EXCEPT ![t] = NoResp]
    /\ ptAcked' = [ptAcked EXCEPT ![t] = FALSE]
    /\ linkOpens' = linkOpens + linksOpened(sl, rl)
    /\ IF sl /\ rl /\ sent
         THEN /\ ptPc' = [ptPc EXCEPT ![t] = "recv"]
              /\ links' = links + linksOpened(sl, rl)
              /\ UNCHANGED <<ptRes, ptcVars, loopPc, loopFailed>>
         ELSE /\ links' = links + linksOpened(sl, rl) - deferredCloses(sl, rl)
              /\ PutTokenReturn(t, HErr(IF sl /\ rl THEN ErrTransport
                                        ELSE ErrLink))
    /\ UNCHANGED <<timerFired, renewals, renewAfterStop, stopClosed,
                   hcloseVars>>
    /\ UNCHANGED <<devVars, spVars>>

\* PutToken from recv.Receive on: Receive, CheckMessageResponse, Accept
PutTokenReceive(t, rcvd, rc) ==
    /\ ptPc[t] = "recv"
    /\ LET r == IF rcvd THEN ResponseError(rc) ELSE HErr(ErrTransport)
       IN /\ ptResp' = [ptResp EXCEPT ![t] = IF rcvd THEN <<TRUE, rc>>
                                                   ELSE NoResp]
          /\ ptAcked' = [ptAcked EXCEPT ![t] = (r = HErr(NoErr))]
          /\ links' = links - deferredCloses(TRUE, TRUE)
          /\ UNCHANGED linkOpens
          /\ PutTokenReturn(t, r)
    /\ UNCHANGED <<timerFired, renewals, renewAfterStop, stopClosed,
                   hcloseVars>>
    /\ UNCHANGED <<devVars, spVars>>

\* time.After(time.Hour) delivers while the goroutine waits in the select;
\* a select that finds stopCh closed does not wait for the hour
TimerFire ==
    /\ loopPc = "select"
    /\ ~timerFired
    /\ ~stopClosed
    /\ renewals < MaxRenewals
    /\ timerFired' = TRUE
    /\ UNCHANGED <<loopPc, loopFailed, renewals, renewAfterStop, stopClosed,
                   putVars, ptcVars, hcloseVars>>
    /\ UNCHANGED <<devVars, spVars>>

\* case <-time.After(time.Hour): the goroutine goes on to c.PutToken
LoopRenew ==
    /\ loopPc = "select"
    /\ timerFired
    /\ timerFired' = FALSE
    /\ loopPc' = "renew"
    /\ ptPc' = [ptPc EXCEPT !["loop"] = "call"]
    /\ renewals' = renewals + 1
    /\ renewAfterStop' = renewAfterStop + (IF stopClosed THEN 1 ELSE 0)
    /\ UNCHANGED <<loopFailed, stopClosed, ptRes, ptResp, ptAcked, links,
                   linkOpens, ptcVars, hcloseVars>>
    /\ UNCHANGED <<devVars, spVars>>

\* the variant that looks at stopCh only after the timer has fired
LoopStopAfterTimer ==
    /\ loopPc = "select"
    /\ stopClosed
    /\ timerFired
    /\ loopPc' = "exit"
    /\ timerFired' = FALSE
    /\ UNCHANGED <<loopFailed, renewals, renewAfterStop, stopClosed, putVars,
                   ptcVars, hcloseVars>>
    /\ UNCHANGED <<devVars, spVars>>

\* case <-stopCh: return
LoopStop ==
    /\ loopPc = "select"
    /\ stopClosed
    /\ loopPc' = "exit"
    /\ timerFired' = FALSE
    /\ UNCHANGED <<loopFailed, renewals, renewAfterStop, stopClosed, putVars,
                   ptcVars, hcloseVars>>
    /\ UNCHANGED <<devVars, spVars>>

\* the owner of stopCh closes it
CloseStop ==
    /\ ~stopClosed
    /\ stopClosed' = TRUE
    /\ UNCHANGED <<loopVars, putVars, ptcVars, hcloseVars>>
    /\ UNCHANGED <<devVars, spVars>>

\* Close of the eventhub client; c.mu is held from entry to return
HubClose(sessOk, connOk) ==
    /\ hCloses < MaxHubCloses
    /\ hCloses' = hCloses + 1
    /\ IF hDone
         THEN /\ hCloseRes' = NoErr
              /\ UNCHANGED <<hDone, sessOpen, connOpen, sessCloseCalls,
                             connCloseCalls>>
         ELSE /\ hDone' = TRUE
              /\ sessCloseCalls' = sessCloseCalls + 1
              /\ sessOpen' = FALSE
              /\ IF sessOk
                   THEN /\ connCloseCalls' = connCloseCalls + 1
                        /\ connOpen' = FALSE
                        /\ hCloseRes' = IF connOk THEN NoErr ELSE ErrTransport
                   ELSE /\ hCloseRes' = ErrTransport
                        /\ UNCHANGED <<connOpen, connCloseCalls>>
    /\ UNCHANGED <<loopVars, putVars, ptcVars, stopClosed>>
    /\ UNCHANGED <<devVars, spVars>>

NextHub ==
    \/ PutTokenContinuously
    \/ \E t \in Tasks : \E sl, rl, sent \in BOOLEAN :
         PutTokenSend(t, sl, rl, sent)
    \/ \E t \in Tasks : \E rcvd \in BOOLEAN : \E rc \in StatusCodes :
         PutTokenReceive(t, rcvd, rc)
    \/ TimerFire
    \/ LoopRenew
    \/ LoopStop
    \/ CloseStop
    \/ \E sessOk, connOk \in BOOLEAN : HubClose(sessOk, connOk)
    \/ \E rl, sl, sent, rcvd, corrOK, valueOK \in BOOLEAN :
         \E rc \in StatusCodes, n \in 0..MaxParts :
           SubscribePartitionsStart(rl, sl, sent, rcvd, rc, corrOK, valueOK, n)

\* ------------------------------------------------------- specifications
Init == DevInit /\ SPInit /\ HubInit

SpecSP == Init /\ [][NextSP]_vars

\* every goroutine that can take a step of the program is scheduled; what
\* the transport delivers (ReceiveMsg, ReceiveErr) and what the caller does
\* (SPCancel) is left to the environment
FairSpecSP ==
    /\ SpecSP
    /\ WF_vars(\E rl, sl, sent, rcvd, corrOK, valueOK \in BOOLEAN :
                 \E rc \in StatusCodes, n \in 0..MaxParts :
                   SubscribePartitionsStart(rl, sl, sent, rcvd, rc, corrOK,
                                            valueOK, n))
    /\ WF_vars(\E ok \in BOOLEAN : OpenReceiver(ok))
    /\ WF_vars(SelectMsg)
    /\ WF_vars(SelectErr)
    /\ \A r \in Parts :
         /\ WF_vars(ReceiveCancelled(r))
         /\ WF_vars(Accept(r))
         /\ WF_vars(SendMsg(r))
         /\ WF_vars(SendErr(r))
    /\ \A m \in AllMsgs : WF_vars(CallbackStart(m))

SpecHub == Init /\ [][NextHub]_vars

\* the goroutines of the program are scheduled and a $cbs exchange that
\* was started comes to an end (the service answers or the transport
\* fails); when the timer fires and who closes stopCh or the client is
\* left to the environment
FairSpecHub ==
    /\ SpecHub
    /\ \A t \in Tasks :
         /\ WF_vars(\E sl, rl, sent \in BOOLEAN : PutTokenSend(t, sl, rl, sent))
         /\ WF_vars(\E rcvd \in BOOLEAN : \E rc \in StatusCodes :
                      PutTokenReceive(t, rcvd, rc))
    /\ WF_vars(LoopRenew)
    /\ WF_vars(LoopStop)

Spec == Init /\ [][Next]_vars

\* a goroutine blocked in the select of checkConnection is woken as soon as
\* one of its channels is closed
FairSpec == Spec /\ \A p \in Procs : WF_vars(CheckConnection(p))

TypeOK ==
    /\ ready \in BOOLEAN /\ done \in BOOLEAN
    /\ mu \in 0..NumProcs
    /\ pc \in [Procs -> {"idle", "connect", "connect_tr", "check", "run",
                         "once_setup", "once_wait", "once_done",
                         "close", "close_mux", "close_tr"}]
    /\ onceErr \in [Procs -> {NoErr, ErrTransport}]
    /\ res \in [Procs -> {NoErr, ErrClosed, ErrAlreadyConnected, ErrCtx,
                          ErrTransport, ErrPayloadNil, ErrNameBlank,
                          ErrRegistered, ErrJSON, Pending}]
    /\ ncalls \in 0..MaxCalls
    /\ hDone \in BOOLEAN /\ sessOpen \in BOOLEAN /\ connOpen \in BOOLEAN
    /\ hCloses \in 0..MaxHubCloses
    /\ ptPc \in [Tasks -> {"off", "call", "recv"}]
    /\ links \in 0..4
    /\ mgmtLinks \in 0..2
    /\ disc \in BOOLEAN \X StatusCodes \X BOOLEAN
    /\ ptcPc \in {"start", "first", "returned"}
    /\ loopPc \in {"none", "select", "renew", "exit"}
    /\ renewals \in 0..MaxRenewals

\* ------------------------------------------------------------ properties

\* callers that have returned from a call of operation o
Returned(o) == {p \in Procs : op[p] = o /\ pc[p] = "idle"}

\* C1: a data-plane call that begins after a Close() has returned never
\* gets past checkConnection to the transport, and returns ErrClosed
C1_ClosedAfterClose ==
    \A p \in Procs :
      (afterClose[p] /\ op[p] \in DataOps) =>
        /\ pc[p] # "run"
        /\ pc[p] = "idle" => res[p] = ErrClosed

\* C2: over any number of Close() calls the teardown runs once: close(c.done),
\* the multiplexer closes and tr.Close are each executed at most once, exactly
\* once as soon as a Close() has returned, and every Close() that did not run
\* the teardown returns nil
C2_TeardownOnce ==
    /\ doneCloses <= 1 /\ muxCloses <= 1 /\ trCloseCalls <= 1
    /\ closeReturned => (doneCloses = 1 /\ muxCloses = 1 /\ trCloseCalls = 1)
    /\ \A p \in Returned("Close") : ~tore[p] => res[p] = NoErr

\* C2 witness: two Close() calls have returned, one of them the teardown
C2_Witness ==
    \E p, q \in Returned("Close") :
      tore[p] /\ ~tore[q] /\ res[q] = NoErr /\ trCloseCalls = 1

\* C3: once a Close() has returned, the events, the twin state and the direct
\* methods multiplexers have all been closed with ErrClosed
C3_AllMuxesClosed ==
    closeReturned =>
      /\ evMux.err = ErrClosed
      /\ tsMux.err = ErrClosed
      /\ dmMux.err = ErrClosed

\* C4: tr.Connect succeeds at most once and c.ready is closed exactly when it
\* did; the transport is not invoked while the client is ready, a Connect on
\* a ready client returns "already connected", and a failed tr.Connect leaves
\* the client unready
C4_ConnectSingleShot ==
    /\ trConnectOK <= 1 /\ readyOpens = trConnectOK
    /\ ready <=> trConnectOK = 1
    /\ \A p \in Procs : pc[p] = "connect_tr" => ~ready
    /\ \A p \in Returned("Connect") : res[p] = ErrAlreadyConnected => ready

\* C4 witness: tr.Connect failed, a later Connect invoked it again with
\* success, and a further Connect returned "already connected"
C4_Witness ==
    /\ trConnectCalls = 2 /\ trConnectOK = 1
    /\ \E p \in Returned("Connect") : res[p] = ErrAlreadyConnected

\* C5: a data-plane call is past checkConnection only on a ready client, and
\* the transport has served data-plane calls only after a successful Connect
C5_NoTransportBeforeReady ==
    /\ \A p \in Procs : pc[p] = "run" => ready
    /\ (\E f \in TrDataOps : trCalls[f] > 0) => trConnectOK >= 1

\* C5 witness: every data-plane function of the transport can be reached
C5_Witness ==
    /\ trCalls["Send"] > 0
    /\ trCalls["RetrieveTwinProperties"] > 0

\* C6: a data-plane call waiting in checkConnection leaves the wait once the
\* client is ready or closed or its context is cancelled, and it leaves it
\* by proceeding on a ready client, with ErrClosed on a closed client or
\* with the context's error when its context is cancelled
C6_WaitReleased ==
    /\ \A p \in Procs :
         (pc[p] = "check" /\ (ready \/ done \/ ctxDone[p])) ~> (pc[p] # "check")
    /\ [][\A p \in Procs :
            (pc[p] = "check" /\ pc'[p] # "check") =>
              \/ pc'[p] = "run" /\ ready
              \/ pc'[p] = "idle" /\ res'[p] = ErrClosed /\ done
              \/ pc'[p] = "idle" /\ res'[p] = ErrCtx /\ ctxDone[p]]_vars

\* C6 witness: a call that began its wait on an unready client before any
\* Close() returned was released with ErrClosed, Connect never succeeding
C6_Witness ==
    \E p \in Procs :
      /\ op[p] \in DataOps /\ pc[p] = "idle" /\ res[p] = ErrClosed
      /\ ~afterClose[p] /\ trConnectOK = 0

\* receiver goroutines that were started and have not returned
Running == {r \in Parts : rpc[r] \notin {"none", "closed"}}

\* C7: the error SubscribePartitions returns is one a receiver reported (or
\* the failure to open a receiver); once the call has returned no receiver
\* goroutine sends on msgc or errc, and every receiver goroutine terminates
\* with its link closed
C7_FirstErrorNoLeak ==
    /\ [](spPc = "returned" /\ spRet[2] # 0 => rpc[spRet[2]] = "closed")
    /\ [][spPc = "returned" => (msgc' = msgc /\ errc' = errc)]_vars
    /\ (spPc = "returned") ~> (Running = {} /\ \A r \in Parts : ~linkOpen[r])

\* C8: once the context passed to SubscribePartitions is cancelled, the call
\* returns and every receiver goroutine terminates
C8_CancelTerminates ==
    spCtxDone ~> (spPc = "returned" /\ Running = {})

\* C9: no callback invocation starts once SubscribePartitions has returned
C9_NoCallbackAfterReturn ==
    [][spPc = "returned" => cbStarted' = cbStarted]_vars

\* C10: every message a receiver has acknowledged is passed to the callback,
\* and the callback is only given acknowledged messages
C10_AtLeastOnce ==
    /\ \A m \in AllMsgs : (m \in Accepted) ~> (m \in cbStarted)
    /\ [](cbPending \cup cbStarted \subseteq Accepted)


\* ------------------------------------------------------------ C11 .. C20
\* PutToken of task t has returned at least once and is not in the middle
\* of a later exchange
PutTokenReturned(t) == ptRes[t] # HErr(Pending) /\ ptPc[t] # "recv"

\* C11: PutToken returns nil exactly when the response it received carries
\* status-code 200, and it acknowledged the response exactly then; a
\* response with another code gives an error that carries the code and the
\* description, a response without an int32 status-code gives an error, and
\* a failure to open a link, to send or to receive is returned as an error
C11_PutTokenResult ==
    \A t \in Tasks :
      PutTokenReturned(t) =>
        /\ (ptRes[t] = HErr(NoErr)) <=> (ptResp[t] = <<TRUE, 200>>)
        /\ ptAcked[t] <=> (ptRes[t] = HErr(NoErr))
        /\ (ptResp[t][1] /\ ptResp[t][2] \notin {200, NoStatus})
             => ptRes[t] = <<ErrStatus, ptResp[t][2],
                             Description(ptResp[t][2])>>
        /\ (ptResp[t][1] /\ ptResp[t][2] = NoStatus)
             => ptRes[t] = HErr(ErrTypecast)
        /\ ~ptResp[t][1] => ptRes[t] \in {HErr(ErrLink), HErr(ErrTransport)}

C11_Witness ==
    /\ PutTokenReturned("first") /\ ptRes["first"] = HErr(NoErr)
    /\ ptAcked["first"]
    /\ PutTokenReturned("loop") /\ ptRes["loop"] = <<ErrStatus, 404, "not found">>

\* C12, in every state: PutTokenContinuously returns what its first PutToken
\* returned; when that is an error no renewal loop was ever started, when it
\* is nil the loop was started; and no loop runs before the call returned
C12_State ==
    /\ ptcPc = "returned" => ptcRet = ptRes["first"]
    /\ (ptcPc = "returned" /\ ptcRet # HErr(NoErr))
         => /\ loopPc = "none" /\ renewals = 0
            /\ ptPc["loop"] = "off" /\ ptRes["loop"] = HErr(Pending)
    /\ (ptcPc = "returned" /\ ptcRet = HErr(NoErr)) => loopPc # "none"
    /\ ptcPc # "returned" => loopPc = "none"

\* C12, in every step: the value PutTokenContinuously returned never
\* changes, and a step in which a renewal fails ends the loop and changes
\* neither that value nor the connection state of the client
C12_Step ==
    /\ ptcPc = "returned" => ptcRet' = ptcRet
    /\ (~loopFailed /\ loopFailed')
         => loopPc' = "exit" /\ UNCHANGED <<ptcVars, hcloseVars>>

\* C12: PutTokenContinuously returns the error of a failed first handshake
\* and never starts the loop then; it returns nil after a successful one;
\* a failed renewal only ends the loop
C12_Continuously == []C12_State /\ [][C12_Step]_vars

C12_Witness ==
    /\ ptcPc = "returned" /\ ptcRet = HErr(NoErr)
    /\ loopFailed /\ loopPc = "exit" /\ ~hDone /\ sessOpen /\ connOpen


\* C13: SendEvent rejects an empty payload, nil or of length zero, with an
\* error and without calling tr.Send; for any other payload it calls
\* tr.Send exactly once
C13_EmptyPayloadRejected ==
    [][\A p \in Procs :
         (pc[p] = "run" /\ op[p] = "SendEvent" /\ pc'[p] = "idle")
           => IF arg[p] \in {"nil", "empty"}
                THEN trCalls' = trCalls /\ res'[p] = ErrPayloadNil
                ELSE trCalls'["Send"] = trCalls["Send"] + 1]_vars

\* C18: within one partition the callback of a message is invoked only
\* after the callbacks of all messages the partition delivered before it
C18_PartitionOrder ==
    [][\A m \in cbStarted' \ cbStarted :
         \A k \in 1..(m[2] - 1) : <<m[1], k>> \in cbStarted]_vars

\* the lifecycle state of the device client
Lifecycle(rdy, dn) ==
    IF dn THEN "Closed" ELSE IF rdy THEN "Ready" ELSE "Unready"

\* C19: Closed is terminal: once the client is closed no step invokes
\* tr.Connect or closes c.ready, and the only lifecycle transitions are
\* Unready -> Ready, Ready -> Closed and Unready -> Closed
C19_ClosedTerminal ==
    [][/\ done => (trConnectCalls' = trConnectCalls /\ ready' = ready)
       /\ Lifecycle(ready, done) # Lifecycle(ready', done')
            => <<Lifecycle(ready, done), Lifecycle(ready', done')>>
                 \in {<<"Unready", "Ready">>, <<"Ready", "Closed">>,
                      <<"Unready", "Closed">>}]_vars


\* the renewal goroutine does not exist or has returned
LoopEnded == loopPc \in {"none", "exit"}

\* a step in which the goroutine goes on to a renewal handshake
RenewalStarts == loopPc # "renew" /\ loopPc' = "renew"

\* the loop has not returned unless stopCh was closed or a renewal failed
C15_KeepsRunning == loopPc = "exit" => (stopClosed \/ loopFailed)

NoReceiver ==
    \A r \in Parts : rpc[r] = "none" /\ ~linkOpen[r] /\ nrecv[r] = 0

\* C16: getPartitionIDs hands out partition ids only for a response with
\* status-code 200 whose correlation id equals the message id of the
\* request; a response with another correlation id gives the protocol
\* error and one with another status code gives the error with its code and
\* description; in both cases SubscribePartitions returns that error and
\* no partition receiver is opened
C16_DiscoveryChecked ==
    /\ (spPc \in {"open", "select"} \/ ids > 0 \/ ~NoReceiver)
         => disc = <<TRUE, 200, TRUE>>
    /\ (disc[1] /\ disc[2] = 200 /\ ~disc[3])
         => /\ spPc = "returned" /\ spRet = SPErr(ErrMismatch)
            /\ spErrDetail = HErr(ErrMismatch)
            /\ NoReceiver
    /\ (disc[1] /\ disc[2] \notin {200, NoStatus})
         => /\ spPc = "returned" /\ spRet = SPErr(ErrStatus)
            /\ spErrDetail = <<ErrStatus, disc[2], Description(disc[2])>>
            /\ NoReceiver

C16_Witness ==
    /\ disc = <<TRUE, 200, FALSE>>
    /\ spPc = "returned" /\ spRet = SPErr(ErrMismatch)

\* C17: the links PutToken and getPartitionIDs open are closed on every way
\* out: no link is open on the session except the two of a PutToken that
\* waits for its response
C17_LinksClosed ==
    /\ links = 2 * Cardinality({t \in Tasks : ptPc[t] = "recv"})
    /\ mgmtLinks = 0

C17_Witness ==
    /\ linkOpens = 3 /\ links = 0 /\ ptPc["loop"] = "off"
    /\ spPc = "returned" /\ disc[1]

\* C20: once a Close of the eventhub client has returned, the session and
\* the connection have both been closed, also when closing the session
\* failed; every later Close returns nil and closes nothing
C20_CloseClosesBoth ==
    hCloses >= 1
      => /\ ~sessOpen /\ ~connOpen
         /\ sessCloseCalls = 1 /\ connCloseCalls = 1
         /\ hCloses >= 2 => hCloseRes = NoErr


\* the multiplexer that call o of the client goes through
MuxOf(o) ==
    IF o = "SubscribeEvents" THEN evMux
    ELSE IF o = "SubscribeTwinUpdates" THEN tsMux
    ELSE dmMux

\* the transport function that sets up the link of that multiplexer
SetupOf(o) == IF o = "RegisterMethod" THEN "RegisterDirectMethods" ELSE o

\* C14, in every state: a multiplexer's setup is executed by at most one
\* caller at a time, and never while the link is set up
C14_State ==
    \A o \in OnceOps :
      /\ Cardinality({q \in Procs : op[q] = o /\ pc[q] = "once_setup"})
           = IF MuxOf(o).busy THEN 1 ELSE 0
      /\ ~(MuxOf(o).busy /\ MuxOf(o).setup)

\* C14, in every step: the transport's setup function is started only when
\* the link is neither set up nor being set up; a link that is set up stays
\* so; when an execution ends, the caller that ran it and every caller that
\* came in meanwhile get its outcome, and each of them returns an error
\* exactly if that execution failed
C14_Step ==
    \A o \in OnceOps :
      /\ trCalls'[SetupOf(o)] \in {trCalls[SetupOf(o)], trCalls[SetupOf(o)] + 1}
      /\ trCalls'[SetupOf(o)] # trCalls[SetupOf(o)]
           => ~MuxOf(o).setup /\ ~MuxOf(o).busy /\ MuxOf(o)'.busy
      /\ MuxOf(o).setup => MuxOf(o)'.setup
      /\ (MuxOf(o).busy /\ ~MuxOf(o)'.busy)
           => \A q \in InOnce(o) :
                /\ pc'[q] = "once_done"
                /\ onceErr'[q] = IF MuxOf(o)'.setup THEN NoErr
                                 ELSE ErrTransport
      /\ \A q \in Procs :
           (op[q] = o /\ pc[q] = "once_done" /\ pc'[q] = "idle")
             => /\ trCalls' = trCalls
                /\ IF onceErr[q] = NoErr
                     THEN res'[q] \in {NoErr, ErrRegistered}
                     ELSE res'[q] = onceErr[q]

\* C14: K concurrent callers of SubscribeEvents, SubscribeTwinUpdates or
\* RegisterMethod cause one execution of the transport's setup function and
\* all observe its outcome; the function is never executed again after it
\* succeeded, and only a call that finds no execution in flight and no link
\* set up executes it again after a failure
C14_SetupOnce == []C14_State /\ [][C14_Step]_vars

C14_Witness ==
    \E o \in OnceOps :
      /\ \A q \in Procs :
           op[q] = o /\ pc[q] = "once_done" /\ onceErr[q] = NoErr
      /\ trCalls[SetupOf(o)] = 1
      /\ MuxOf(o).setup

====
